---- MODULE Spec2Model ----
(***************************************************************************)
(* DeviceFingerprint: identity derivation and redirect construction.       *)
(*                                                                         *)
(* The model covers both script variants of the repository                 *)
(* (src/js/script.js and src/unnamed/part_000).  A page load is one run;   *)
(* several runs (tabs of the same origin) share one cookie jar.  An action *)
(* is one event-loop task together with the microtasks it drains: code     *)
(* between two awaits that only wait for already-settled promises runs in  *)
(* the same action.                                                        *)
(*                                                                         *)
(* Text is modelled as a sequence of one-character strings, so that        *)
(* splitting, searching and percent-encoding are computed character by     *)
(* character.  An optional value (JS undefined / null against a string) is *)
(* <<>> when absent and <<s>> when present.                                *)
(***************************************************************************)
EXTENDS Integers, Sequences, FiniteSets, TLC

(***************************************************************************)
(* Text helpers                                                            *)
(***************************************************************************)
None == <<>>
Some(s) == <<s>>

RECURSIVE Str(_)
\* Flatten a character sequence into a TLA+ string (for comparison with literals).
Str(s) == IF s = <<>> THEN "" ELSE Head(s) \o Str(Tail(s))

RECURSIVE Concat(_)
\* Concatenate a sequence of character sequences (template literal / String +).
Concat(ss) == IF ss = <<>> THEN <<>> ELSE Head(ss) \o Concat(Tail(ss))

RECURSIVE Join(_, _)
\* Array.prototype.join(sep)
Join(ss, sep) ==
  IF ss = <<>> THEN <<>>
  ELSE IF Len(ss) = 1 THEN ss[1]
  ELSE ss[1] \o sep \o Join(Tail(ss), sep)

\* String.prototype.startsWith
startsWith(s, p) == Len(p) <= Len(s) /\ SubSeq(s, 1, Len(p)) = p

RECURSIVE IndexFrom(_, _, _)
\* Index of the first occurrence of a non-empty p in s at or after position i,
\* 0 when there is none.
IndexFrom(s, p, i) ==
  IF i + Len(p) - 1 > Len(s) THEN 0
  ELSE IF s[i] = p[1] /\ SubSeq(s, i, i + Len(p) - 1) = p THEN i
  ELSE IndexFrom(s, p, i + 1)

IndexOf(s, p) == IndexFrom(s, p, 1)

\* String.prototype.includes
includes(s, p) == IndexOf(s, p) # 0

RECURSIVE Split(_, _)
\* String.prototype.split(sep) for a non-empty separator: always at least one piece.
Split(s, sep) ==
  LET i == IndexOf(s, sep) IN
  IF i = 0 THEN <<s>>
  ELSE <<SubSeq(s, 1, i - 1)>> \o Split(SubSeq(s, i + Len(sep), Len(s)), sep)

(***************************************************************************)
(* Character codes and percent-encoding                                    *)
(***************************************************************************)
UpperHex == <<"0", "1", "2", "3", "4", "5", "6", "7", "8", "9", "A", "B", "C", "D", "E", "F">>
LowerHex == <<"0", "1", "2", "3", "4", "5", "6", "7", "8", "9", "a", "b", "c", "d", "e", "f">>

\* The characters of the model's alphabet that are not left alone by the encoders,
\* with their ASCII codes.
CharCode ==
  [c \in {" ", "#", "%", "&", "+", ",", "/", ":", ";", "=", "?", "|"} |->
     CASE c = " " -> 32 [] c = "#" -> 35 [] c = "%" -> 37 [] c = "&" -> 38
       [] c = "+" -> 43 [] c = "," -> 44 [] c = "/" -> 47 [] c = ":" -> 58
       [] c = ";" -> 59 [] c = "=" -> 61 [] c = "?" -> 63 [] c = "|" -> 124]

\* Codes whose character the decoders can produce: the above and a few letters.
CodeChar ==
  [n \in {32, 35, 37, 38, 43, 44, 47, 58, 59, 61, 63, 124, 65, 97} |->
     CASE n = 65 -> "A" [] n = 97 -> "a"
       [] OTHER -> CHOOSE c \in DOMAIN CharCode : CharCode[c] = n]

HexVal(c) ==
  IF \E i \in 1..16 : UpperHex[i] = c THEN (CHOOSE i \in 1..16 : UpperHex[i] = c) - 1
  ELSE IF \E i \in 1..16 : LowerHex[i] = c THEN (CHOOSE i \in 1..16 : LowerHex[i] = c) - 1
  ELSE -1

IsHex(c) == HexVal(c) >= 0

\* "%XX" with upper-case digits, as both encoders emit it.
PercentByte(n) == <<"%", UpperHex[(n \div 16) + 1], UpperHex[(n % 16) + 1]>>

RECURSIVE encodeURIComponent(_)
\* encodeURIComponent: unreserved characters stay, every other one becomes %XX.
encodeURIComponent(s) ==
  IF s = <<>> THEN <<>>
  ELSE (IF Head(s) \in DOMAIN CharCode THEN PercentByte(CharCode[Head(s)]) ELSE <<Head(s)>>)
       \o encodeURIComponent(Tail(s))

RECURSIVE FormSerialize(_)
\* application/x-www-form-urlencoded byte serializer (URLSearchParams.toString):
\* space becomes "+", every other character outside [A-Za-z0-9*-._] becomes %XX.
FormSerialize(s) ==
  IF s = <<>> THEN <<>>
  ELSE (IF Head(s) = " " THEN <<"+">>
        ELSE IF Head(s) \in DOMAIN CharCode THEN PercentByte(CharCode[Head(s)])
        ELSE <<Head(s)>>)
       \o FormSerialize(Tail(s))

\* A well-formed escape at the head of s that the alphabet can name.
EscapeAt(s) ==
  /\ Len(s) >= 3
  /\ s[1] = "%"
  /\ IsHex(s[2])
  /\ IsHex(s[3])

RECURSIVE PercentDecode(_)
\* Lenient percent-decoding (URL standard): a malformed escape is kept as text.
PercentDecode(s) ==
  IF s = <<>> THEN <<>>
  ELSE IF EscapeAt(s)
       THEN <<CodeChar[HexVal(s[2]) * 16 + HexVal(s[3])]>> \o PercentDecode(SubSeq(s, 4, Len(s)))
       ELSE <<Head(s)>> \o PercentDecode(Tail(s))

RECURSIVE PlusToSpace(_)
PlusToSpace(s) ==
  IF s = <<>> THEN <<>>
  ELSE <<IF Head(s) = "+" THEN " " ELSE Head(s)>> \o PlusToSpace(Tail(s))

\* application/x-www-form-urlencoded string decoding of one name or value.
FormDecode(s) == PercentDecode(PlusToSpace(s))

RECURSIVE WellEscaped(_)
\* Every "%" of s starts a well-formed escape.
WellEscaped(s) ==
  IF s = <<>> THEN TRUE
  ELSE IF Head(s) = "%" THEN EscapeAt(s) /\ WellEscaped(SubSeq(s, 4, Len(s)))
  ELSE WellEscaped(Tail(s))

\* decodeURIComponent: strict; a malformed escape raises URIError.
decodeURIComponent(s) ==
  IF WellEscaped(s) THEN [ok |-> TRUE, val |-> PercentDecode(s)]
  ELSE [ok |-> FALSE, val |-> <<>>]

(***************************************************************************)
(* URLSearchParams                                                         *)
(***************************************************************************)
\* One "name=value" piece of a query: split at the first "=", both sides decoded.
ParsePair(piece) ==
  LET i == IndexOf(piece, <<"=">>) IN
  IF i = 0 THEN <<FormDecode(piece), <<>>>>
  ELSE <<FormDecode(SubSeq(piece, 1, i - 1)), FormDecode(SubSeq(piece, i + 1, Len(piece)))>>

RECURSIVE ParsePieces(_)
ParsePieces(pieces) ==
  IF pieces = <<>> THEN <<>>
  ELSE (IF Head(pieces) = <<>> THEN <<>> ELSE <<ParsePair(Head(pieces))>>)
       \o ParsePieces(Tail(pieces))

\* new URLSearchParams(window.location.search): a leading "?" is dropped, the rest
\* is split on "&", empty pieces are skipped.
URLSearchParams(search) ==
  LET q == IF startsWith(search, <<"?">>) THEN Tail(search) ELSE search IN
  ParsePieces(Split(q, <<"&">>))

\* URLSearchParams.prototype.get: the first value of that name, or null.
ParamsGet(params, name) ==
  IF \E i \in 1..Len(params) : params[i][1] = name
  THEN Some(params[CHOOSE i \in 1..Len(params) :
                     /\ params[i][1] = name
                     /\ \A j \in 1..(i - 1) : params[j][1] # name][2])
  ELSE None

RECURSIVE ParamsDelete(_, _)
\* URLSearchParams.prototype.delete: every pair of that name is removed.
ParamsDelete(params, name) ==
  IF params = <<>> THEN <<>>
  ELSE (IF Head(params)[1] = name THEN <<>> ELSE <<Head(params)>>)
       \o ParamsDelete(Tail(params), name)

\* URLSearchParams.prototype.toString
ParamsToString(params) ==
  Join([i \in 1..Len(params) |->
          FormSerialize(params[i][1]) \o <<"=">> \o FormSerialize(params[i][2])],
       <<"&">>)

\* JS truthiness of an optional string: present and non-empty.
Truthy(opt) == opt # None /\ opt[1] # <<>>

K_URL == <<"U", "R", "L">>

\* script.js: the routing target is read, decoded a second time, and every other
\* parameter is re-serialized.  threw: decodeURIComponent raised URIError.
extractBaseUrlAndParams(search) ==
  LET params == URLSearchParams(search)
      got == ParamsGet(params, K_URL)
      dec == IF Truthy(got) THEN decodeURIComponent(got[1]) ELSE [ok |-> TRUE, val |-> <<>>]
  IN [threw |-> ~dec.ok,
      baseUrl |-> IF Truthy(got) /\ dec.ok THEN Some(dec.val) ELSE None,
      extraParams |-> ParamsToString(ParamsDelete(params, K_URL))]

\* part_000: only the routing target is read; no other parameter is retained.
getBaseUrlFromUrlParameter(search) ==
  [threw |-> FALSE,
   baseUrl |-> ParamsGet(URLSearchParams(search), K_URL),
   extraParams |-> <<>>]

Variants == {"script", "part000"}

\* What initialize() holds after reading the page's query, per variant.
RequestParams(variant, search) ==
  IF variant = "script" THEN extractBaseUrlAndParams(search)
  ELSE getBaseUrlFromUrlParameter(search)

(***************************************************************************)
(* Cookie store                                                            *)
(***************************************************************************)
K_uniqueID == <<"u", "n", "i", "q", "u", "e", "I", "D">>

\* document.cookie as read: "name=value" pairs joined with "; ".
DocumentCookie(jar) ==
  Join([i \in 1..Len(jar) |-> jar[i].name \o <<"=">> \o jar[i].value], <<";", " ">>)

\* Variant of the row search that accepts the prefix anywhere in the row.
FindRow_anywhere(rows, prefix) ==
  IF \E i \in 1..Len(rows) : includes(rows[i], prefix)
  THEN Some(rows[CHOOSE i \in 1..Len(rows) :
                   /\ includes(rows[i], prefix)
                   /\ \A j \in 1..(i - 1) : ~includes(rows[j], prefix)])
  ELSE None

\* Array.prototype.find over the rows: the first row with that prefix, if any.
FindRow(rows, prefix) ==
  IF \E i \in 1..Len(rows) : startsWith(rows[i], prefix)
  THEN Some(rows[CHOOSE i \in 1..Len(rows) :
                   /\ startsWith(rows[i], prefix)
                   /\ \A j \in 1..(i - 1) : ~startsWith(rows[j], prefix)])
  ELSE None

\* getCookie: the text between the first and the second "=" of the matching row;
\* the value is not decoded.
getCookie(jar, name) ==
  LET row == FindRow(Split(DocumentCookie(jar), <<";", " ">>), name \o <<"=">>) IN
  IF row = None THEN None ELSE Some(Split(row[1], <<"=">>)[2])

\* Milliseconds per unit of the `days` argument, in days (86,400,000 ms):
\* script.js multiplies by 315360000000, part_000 by 86400000.
DaysPerUnit(variant) == IF variant = "script" THEN 3650 ELSE 1

DefaultDays == 365

\* The cookie that setCookie's assignment to document.cookie describes.
CookieOf(variant, name, value, days) ==
  [name |-> name,
   value |-> encodeURIComponent(value),
   expiresInDays |-> days * DaysPerUnit(variant),
   path |-> "/",
   sameSite |-> "Strict",
   secure |-> TRUE]

\* The jar after the user agent stores cookie c: a cookie of the same name is
\* replaced in place, a new one is appended; a cookie whose expiry is not in the
\* future is not kept and evicts the one of the same name.
StoreCookie(jar, c) ==
  IF c.expiresInDays <= 0 THEN SelectSeq(jar, LAMBDA old : old.name # c.name)
  ELSE IF \E i \in 1..Len(jar) : jar[i].name = c.name
  THEN [i \in 1..Len(jar) |-> IF jar[i].name = c.name THEN c ELSE jar[i]]
  ELSE Append(jar, c)

\* The stored value of the cookie of that name, read from the jar itself.
StoredValue(jar, name) ==
  IF \E i \in 1..Len(jar) : jar[i].name = name
  THEN Some(jar[CHOOSE i \in 1..Len(jar) : jar[i].name = name].value)
  ELSE None

\* Variant of setCookie that never reaches the jar.
setCookie_dropped(jar, mode, variant, name, value, days) == jar

\* setCookie under a user agent that accepts the write ("accept") or silently
\* drops it ("ignore": cookies disabled, or a Secure cookie on an insecure origin).
setCookie(jar, mode, variant, name, value, days) ==
  IF mode = "accept" THEN StoreCookie(jar, CookieOf(variant, name, value, days)) ELSE jar

(***************************************************************************)
(* Entropy collection and digest                                           *)
(***************************************************************************)
\* `x || fallback` on an optional text.
OrElse(opt, fallback) == IF Truthy(opt) THEN opt[1] ELSE fallback

T_Unknown == <<"U", "n", "k", "n", "o", "w", "n">>
T_UnknownOS == <<"U", "n", "k", "n", "o", "w", "n", " ", "O", "S">>
T_NA == <<"N", "/", "A">>

\* The joined sample of collectStableData, given the canvas data URL, the ISO
\* timestamp and the Math.random() text of this call.
collectStableData(env, canvasFingerprint, now, rnd) ==
  Join(<<env.userAgent,
         OrElse(env.platform, T_UnknownOS),
         env.screen,
         OrElse(env.deviceMemory, T_Unknown),
         OrElse(env.hardwareConcurrency, T_Unknown),
         canvasFingerprint,
         now,
         rnd>>, <<"|">>)

\* Length of the digest in bytes (SHA-256 yields 32; the model keeps fewer).
DigestLen == 2

Alphabet ==
  <<"0", "1", "2", "3", "4", "5", "6", "7", "8", "9",
    "a", "b", "c", "d", "e", "f", "g", "h", "i", "j", "k", "l", "m",
    "n", "o", "p", "q", "r", "s", "t", "u", "v", "w", "x", "y", "z",
    "A", "B", "C", "D", "E", "F", "G", "H", "I", "J", "K", "L", "M",
    "N", "O", "P", "Q", "R", "S", "T", "U", "V", "W", "X", "Y", "Z",
    " ", "#", "%", "&", "+", ",", "/", ":", ";", "=", "?", "|", ".", "-", "_">>

RECURSIVE OrdFrom(_)
OrdFrom(i) == IF i > Len(Alphabet) THEN <<>> ELSE (Alphabet[i] :> i) @@ OrdFrom(i + 1)

\* Position of each character in the alphabet.
OrdTable == OrdFrom(1)

Ord(c) == OrdTable[c]

RECURSIVE Roll(_, _, _)
\* One byte of the digest stand-in: a rolling sum over the characters of the data
\* from position i on.
Roll(s, i, h) == IF i > Len(s) THEN h ELSE Roll(s, i + 1, (h * 31 + Ord(s[i])) % 256)

\* crypto.subtle.digest("SHA-256", data): a fixed function of the data, DigestLen bytes.
SHA256(data) == [i \in 1..DigestLen |-> Roll(data, 1, i * 7)]

\* Number.prototype.toString(16) of a byte.
ToString16(b) ==
  IF b < 16 THEN <<LowerHex[b + 1]>>
  ELSE <<LowerHex[(b \div 16) + 1], LowerHex[(b % 16) + 1]>>

\* String.prototype.padStart(2, '0')
PadStart2(s) == IF Len(s) < 2 THEN <<"0">> \o s ELSE s

\* hashArray.map(b => b.toString(16).padStart(2, '0')).join('')
HexEncode(bytes) == Concat([i \in 1..Len(bytes) |-> PadStart2(ToString16(bytes[i]))])

\* The identifier generateUniqueID resolves to for a joined sample.
generateUniqueID(stableData) == HexEncode(SHA256(stableData))

(***************************************************************************)
(* Enrichment record and redirect URL                                      *)
(***************************************************************************)
\* The object `{}` that fetchIPData returns on every failure.
EmptyRecord == [kind |-> "object", city |-> None, region |-> None, country |-> None]

\* A parsed JSON body that is not an object (null).
NullBody == [kind |-> "null", city |-> None, region |-> None, country |-> None]

K_timezone == <<"t", "i", "m", "e", "z", "o", "n", "e">>
K_location == <<"l", "o", "c", "a", "t", "i", "o", "n">>

\* `${ipData.city || 'N/A'},${ipData.region || 'N/A'},${ipData.country || 'N/A'}`
LocationOf(ipData) ==
  Concat(<<OrElse(ipData.city, T_NA), <<",">>,
           OrElse(ipData.region, T_NA), <<",">>,
           OrElse(ipData.country, T_NA)>>)

\* Variant of the derived block written as a template string, values as they are.
DerivedParams_template(uniqueID, timezone, ipData) ==
  Join(<<K_uniqueID \o <<"=">> \o uniqueID,
         K_timezone \o <<"=">> \o timezone,
         K_location \o <<"=">> \o LocationOf(ipData)>>, <<"&">>)

\* The derived block: new URLSearchParams({uniqueID, timezone, location}).toString()
DerivedParams(uniqueID, timezone, ipData) ==
  ParamsToString(<<<<K_uniqueID, uniqueID>>,
                   <<K_timezone, timezone>>,
                   <<K_location, LocationOf(ipData)>>>>)

\* fullParams: script.js puts a non-empty extraParams first; part_000 has none
\* (its RequestParams.extraParams is always empty).
FullParams(extraParams, derived) ==
  IF extraParams # <<>> THEN extraParams \o <<"&">> \o derived ELSE derived

\* Variant of constructRedirectURL that always joins with "?".
constructRedirectURL_question(uniqueID, ipData, baseUrl, extraParams, timezone) ==
  IF ipData.kind = "null" THEN [threw |-> TRUE, url |-> <<>>]
  ELSE [threw |-> FALSE,
        url |-> baseUrl \o <<"?">>
                \o FullParams(extraParams, DerivedParams(uniqueID, timezone, ipData))]

\* constructRedirectURL; threw: reading a property of a null ipData raises TypeError.
constructRedirectURL(uniqueID, ipData, baseUrl, extraParams, timezone) ==
  IF ipData.kind = "null" THEN [threw |-> TRUE, url |-> <<>>]
  ELSE [threw |-> FALSE,
        url |-> baseUrl
                \o (IF includes(baseUrl, <<"?">>) THEN <<"&">> ELSE <<"?">>)
                \o FullParams(extraParams, DerivedParams(uniqueID, timezone, ipData))]

(***************************************************************************)
(* Inputs: page queries, environments, cookie jars, remote bodies          *)
(***************************************************************************)
\* Number of page loads (tabs of one origin) sharing the cookie jar.
NumRuns == 2
Runs == 1..NumRuns

\* String(Math.random()) in page load r: the draws of different page loads differ.
Digits == <<"1", "2", "3", "4", "5", "6", "7", "8">>
Random(r) == <<"0", ".", Digits[r]>>

\* new Date().toISOString(), shortened.
Timestamps == {<<"T", "1">>}

\* window.location.search of the page.
Q_None == <<>>
Q_Plain == <<"?", "U", "R", "L", "=", "h", "t", "t", "p", "s", ":", "/", "/", "x", ".", "t", "e", "s", "t", "/", "a">>
Q_Extra == <<"?", "r", "e", "f", "=", "1", "&", "U", "R", "L", "=", "h", "t", "t", "p", "s", "%", "3", "A", "%", "2", "F", "%", "2", "F", "x", ".", "t", "e", "s", "t", "%", "2", "F", "a", "%", "3", "F", "p", "%", "3", "D", "1", "&", "k", "=", "v">>
Queries == {Q_None, Q_Plain, Q_Extra}

TZ_UTC == <<"U", "T", "C">>
TZ_Rome == <<"E", "u", "r", "o", "p", "e", "/", "R", "o", "m", "e">>

BaseEnv ==
  [cookies |-> "accept", subtle |-> TRUE, canvas |-> TRUE, timeZone |-> TZ_UTC,
   userAgent |-> <<"U", "A">>, platform |-> Some(<<"X", "1", "1">>), screen |-> <<"8", "x", "6">>,
   deviceMemory |-> Some(<<"8">>), hardwareConcurrency |-> Some(<<"4">>)]

\* The environments a page load can execute in:
\*   cookies: "accept"; "ignore" (the write is dropped: cookies disabled, or the
\*            Secure attribute on an insecure origin); "throw" (opaque origin:
\*            every access to document.cookie raises SecurityError);
\*   subtle:  crypto.subtle exists (secure context);
\*   canvas:  getContext('2d') returns a context.
Environments ==
  {BaseEnv,
   [BaseEnv EXCEPT !.cookies = "ignore", !.timeZone = TZ_Rome, !.deviceMemory = None],
   [BaseEnv EXCEPT !.cookies = "ignore", !.subtle = FALSE, !.platform = None],
   [BaseEnv EXCEPT !.cookies = "throw"],
   [BaseEnv EXCEPT !.canvas = FALSE, !.hardwareConcurrency = None]}

\* canvas.toDataURL(), shortened.
CanvasDataURL == <<"d", "a", "t", "a", ":", "p", "n", "g">>

\* A cookie of another script of the origin.
OtherCookie ==
  [name |-> <<"s", "i", "d">>, value |-> <<"7">>, expiresInDays |-> 1,
   path |-> "/", sameSite |-> "Strict", secure |-> TRUE]

\* The identifier an earlier visit of this device minted and stored.
PriorID(env) ==
  generateUniqueID(collectStableData(env, CanvasDataURL, <<"T", "0">>, <<"0", ".", "9">>))

\* The jars a page load can find: the identifier cookie is there only if an
\* earlier visit could mint and store it.
Jars(v, e) ==
  {<<>>}
  \cup (IF e = BaseEnv
        THEN {<<OtherCookie, CookieOf(v, K_uniqueID, PriorID(e), DefaultDays)>>}
        ELSE {})

G_Full ==
  [kind |-> "object", city |-> Some(<<"P", "a", "r", "i", "s">>),
   region |-> Some(<<"I", "D", "F">>), country |-> Some(<<"F", "R">>)]
G_Partial ==
  [kind |-> "object", city |-> Some(<<"P", "a", "r", "i", "s">>),
   region |-> None, country |-> Some(<<>>)]

\* Enrichment records the composer is exercised with.
GeoRecords == {G_Full, G_Partial, EmptyRecord}

\* The values response.json() resolves to in the runs: an object, and null.
Bodies == {G_Full, NullBody}


(***************************************************************************)
(* State                                                                   *)
(***************************************************************************)
VARIABLES
  variant,     \* which script the page carries
  search,      \* window.location.search
  request,     \* what the script reads from it (RequestParams), the same in every run
  env,         \* the environment of the origin
  jar,         \* the cookie jar of the origin, shared by all runs
  lastWriter,  \* the run whose setCookie the jar accepted last, 0 when none
  run,         \* per page load: the position and locals of its control flow
  probe        \* a direct call of constructRedirectURL: its arguments and result

vars == <<variant, search, request, env, jar, lastWriter, run, probe>>

\* pc: "load"      the script has not run yet
\*     "digest"    init awaits crypto.subtle.digest inside generateUniqueID
\*     "fetch"     init awaits fetchIPData, which awaits fetch()
\*     "body"      init awaits fetchIPData, which awaits response.json()
\*     "navWait"   the navigation timer (1500 ms) is pending
\*     "redirected" window.location.href has been assigned
\*     "dWait"     renderConsoleInfo's 4200 ms timer is pending
\*     "dTyping"   the console lines are being typed (150 ms timers)
\*     "dFetch", "dBody"  the disclosure callback awaits its own fetchIPData
\*     "disclosed" the console has been rendered
\*     "failed"    the control flow ended with an uncaught exception (cause)
NewRun ==
  [pc |-> "load", route |-> "none", cause |-> "none",
   baseUrl |-> None,       \* initialize's baseUrl
   extraParams |-> <<>>,   \* initialize's extraParams
   stored0 |-> None,       \* the identifier cookie in the jar when the script ran
   uniqueID |-> None,      \* init's local uniqueID
   stableData |-> None,    \* the sample whose digest is being computed
   genCalls |-> 0,         \* calls of generateUniqueID
   setCalls |-> 0,         \* calls of setCookie
   timer |-> "none",       \* fetchIPData's abort timer: none, armed, cleared, fired
   elapsed |-> FALSE,      \* the pending fetchIPData call was made timeoutMs ago or earlier
   outcome |-> "none",     \* how the enrichment call ended
   ipData |-> None,        \* what the enrichment call resolved to
   redirectUrl |-> None,
   href |-> None]          \* the value assigned to window.location.href

Fail(rec, cause) == [rec EXCEPT !.pc = "failed", !.cause = cause]

\* The enrichment call has been made and has not settled.
Pending(rec) == rec.pc \in {"fetch", "body", "dFetch", "dBody"}

(***************************************************************************)
(* DeviceFingerprint.init, one piece per await                             *)
(***************************************************************************)
\* fetchIPData up to `await fetch(...)`: the abort timer is armed, the request sent.
fetchIPData_call(rec) == [rec EXCEPT !.pc = "fetch", !.timer = "armed", !.elapsed = FALSE]

\* Variant of generateUniqueID that swallows the failure of the sample or of the
\* digest and lets init go on without an identifier.
generateUniqueID_call_swallow(rec, e, now, rnd) ==
  LET called == [rec EXCEPT !.genCalls = @ + 1] IN
  IF ~e.canvas \/ ~e.subtle THEN fetchIPData_call(called)
  ELSE [called EXCEPT !.pc = "digest",
                      !.stableData = Some(collectStableData(e, CanvasDataURL, now, rnd))]

\* generateUniqueID up to `await crypto.subtle.digest(...)`.  A null 2D context
\* or a missing crypto.subtle raises TypeError, which nothing catches.
generateUniqueID_call(rec, e, now, rnd) ==
  LET called == [rec EXCEPT !.genCalls = @ + 1] IN
  IF ~e.canvas THEN Fail(called, "canvas")
  ELSE IF ~e.subtle THEN Fail(called, "digest")
  ELSE [called EXCEPT !.pc = "digest",
                      !.stableData = Some(collectStableData(e, CanvasDataURL, now, rnd))]

\* String(x) of an optional text.
ToText(opt) == IF opt = None THEN <<"u", "n", "d", "e", "f", "i", "n", "e", "d">> ELSE opt[1]

\* Variant of init's branch that mints on every run, stored cookie or not.
init_resolve_regenerate(rec, cookie, e, now, rnd) ==
  generateUniqueID_call(rec, e, now, rnd)

\* Variant of init's branch that does not await the generation before it sends
\* the enrichment request.
init_resolve_fanout(rec, cookie, e, now, rnd) ==
  IF Truthy(cookie)
  THEN fetchIPData_call([rec EXCEPT !.uniqueID = cookie])
  ELSE fetchIPData_call(generateUniqueID_call(rec, e, now, rnd))

\* What init does with the cookie it read: reuse it, or generate.
init_resolve(rec, cookie, e, now, rnd) ==
  IF Truthy(cookie)
  THEN fetchIPData_call([rec EXCEPT !.uniqueID = cookie])
  ELSE generateUniqueID_call(rec, e, now, rnd)

\* init from its start to its first suspension.
init(rec, j, e, now, rnd) ==
  IF e.cookies = "throw" THEN Fail(rec, "storage")
  ELSE init_resolve(rec, getCookie(j, K_uniqueID), e, now, rnd)

\* init resumed with the enrichment result: compose the URL, schedule navigation.
init_compose(rec, ipData, e) ==
  LET built == constructRedirectURL(ToText(rec.uniqueID), ipData, rec.baseUrl[1],
                                    rec.extraParams, e.timeZone)
      got == [rec EXCEPT !.ipData = Some(ipData)]
  IN IF built.threw THEN Fail(got, "compose")
     ELSE [got EXCEPT !.pc = "navWait", !.redirectUrl = Some(built.url)]

(***************************************************************************)
(* renderConsoleInfo (disclosure route)                                    *)
(***************************************************************************)
\* script.js defers the rendering by a timer; part_000 renders at once.
renderConsoleInfo(rec, v) ==
  IF v = "script" THEN [rec EXCEPT !.pc = "dWait"] ELSE [rec EXCEPT !.pc = "disclosed"]

\* The disclosure callback resumed with the enrichment result (script.js 73-88).
render_update(rec, ipData) ==
  LET got == [rec EXCEPT !.ipData = Some(ipData)] IN
  IF ipData.kind = "null" THEN Fail(got, "render") ELSE [got EXCEPT !.pc = "disclosed"]

\* Variant of initialize that runs init on a page without a routing target too.
initialize_mint(rec, v, req, j, e, now, rnd) ==
  LET got == [rec EXCEPT !.baseUrl = req.baseUrl, !.extraParams = req.extraParams]
  IN IF req.threw THEN Fail(rec, "decode")
     ELSE IF Truthy(req.baseUrl) THEN init([got EXCEPT !.route = "redirect"], j, e, now, rnd)
     ELSE init([got EXCEPT !.route = "disclosure"], j, e, now, rnd)

\* initialize(): the routing decision.
initialize(rec, v, req, j, e, now, rnd) ==
  LET got == [rec EXCEPT !.baseUrl = req.baseUrl, !.extraParams = req.extraParams]
  IN IF req.threw THEN Fail(rec, "decode")
     ELSE IF Truthy(req.baseUrl) THEN init([got EXCEPT !.route = "redirect"], j, e, now, rnd)
     ELSE renderConsoleInfo([got EXCEPT !.route = "disclosure"], v)

(***************************************************************************)
(* fetchIPData                                                             *)
(***************************************************************************)
\* Variant of fetchIPData whose body read is returned without being awaited inside
\* the try block: a rejected response.json() escapes the catch.
fetchIPData_result_unawaited(how, value) ==
  IF how = "value" THEN [threw |-> FALSE, value |-> value]
  ELSE IF how = "parse" THEN [threw |-> TRUE, value |-> EmptyRecord]
  ELSE [threw |-> FALSE, value |-> EmptyRecord]

\* What the call settles to for each way its awaits can end:
\*   "transport"  fetch() rejected (network error)
\*   "abort"      fetch() rejected because the controller aborted it
\*   "status"     the response arrived with ok = false
\*   "parse"      response.json() rejected
\*   "value"      response.json() resolved to `value`
fetchIPData_result(how, value) ==
  IF how = "value" THEN [threw |-> FALSE, value |-> value]
  ELSE [threw |-> FALSE, value |-> EmptyRecord]

\* The caller resumed after the call settled.
Resume(rec, how, value, e) ==
  LET res == fetchIPData_result(how, value)
      done == [rec EXCEPT !.outcome = how, !.elapsed = FALSE]
  IN IF res.threw THEN Fail(done, "fetch")
     ELSE IF rec.route = "redirect" THEN init_compose(done, res.value, e)
     ELSE render_update(done, res.value)

\* clearTimeout(timeoutId) after the response headers arrived (redirect route; the
\* disclosure route's fetchIPData has no timer).
fetchIPData_clearTimeout(rec) ==
  IF rec.timer = "armed" THEN [rec EXCEPT !.timer = "cleared"] ELSE rec

(***************************************************************************)
(* Actions                                                                 *)
(***************************************************************************)
NoProbe ==
  [baseUrl |-> <<>>, extraParams |-> <<>>, uniqueID |-> <<>>, timezone |-> <<>>,
   ipData |-> EmptyRecord, result |-> None]

Init ==
  /\ variant \in Variants
  /\ search \in Queries
  /\ request = RequestParams(variant, search)
  /\ env \in Environments
  /\ jar \in Jars(variant, env)
  /\ lastWriter = 0
  /\ run = [r \in Runs |-> NewRun]
  /\ probe = NoProbe

\* The page's script runs: initialize() up to the first suspension.
Initialize(r) ==
  /\ run[r].pc = "load"
  /\ \E now \in Timestamps, rnd \in {Random(r)} :
       \E next \in {initialize([run[r] EXCEPT !.stored0 = StoredValue(jar, K_uniqueID)],
                                variant, request, jar, env, now, rnd)} :
         run' = [run EXCEPT ![r] = next]
  /\ UNCHANGED <<variant, search, request, env, jar, lastWriter, probe>>

\* The digest resolves: hex-encode it, write the cookie, start the enrichment.
DigestResolves(r) ==
  /\ run[r].pc = "digest"
  /\ \E id \in {generateUniqueID(run[r].stableData[1])} :
       /\ \E stored \in {setCookie(jar, env.cookies, variant, K_uniqueID, id, DefaultDays)} :
            jar' = stored
       /\ lastWriter' = IF env.cookies = "accept" THEN r ELSE lastWriter
       /\ run' = [run EXCEPT ![r] =
                    fetchIPData_call([@ EXCEPT !.uniqueID = Some(id), !.stableData = None,
                                               !.setCalls = @ + 1])]
  /\ UNCHANGED <<variant, search, request, env, probe>>

\* The digest rejects (OperationError): init rejects, nothing catches it.
DigestRejects(r) ==
  /\ run[r].pc = "digest"
  /\ run' = [run EXCEPT ![r] = Fail([@ EXCEPT !.stableData = None], "digest")]
  /\ UNCHANGED <<variant, search, request, env, jar, lastWriter, probe>>

\* fetch() rejects with a network error; the timer is left armed.
FetchFails(r) ==
  /\ run[r].pc \in {"fetch", "dFetch"}
  /\ \E next \in {Resume(run[r], "transport", EmptyRecord, env)} :
       run' = [run EXCEPT ![r] = next]
  /\ UNCHANGED <<variant, search, request, env, jar, lastWriter, probe>>

\* The response headers arrive: the timer is cleared; a non-ok status settles the
\* call, an ok status goes on to read the body.
FetchResponds(r) ==
  /\ run[r].pc \in {"fetch", "dFetch"}
  /\ \E ok \in BOOLEAN :
       \E next \in {IF ok
                    THEN [fetchIPData_clearTimeout(run[r]) EXCEPT
                            !.pc = IF run[r].pc = "fetch" THEN "body" ELSE "dBody"]
                    ELSE Resume(fetchIPData_clearTimeout(run[r]), "status", EmptyRecord, env)} :
         run' = [run EXCEPT ![r] = next]
  /\ UNCHANGED <<variant, search, request, env, jar, lastWriter, probe>>

\* response.json() resolves with a parsed body.
BodyArrives(r) ==
  /\ run[r].pc \in {"body", "dBody"}
  /\ \E b \in Bodies :
       \E next \in {Resume(run[r], "value", b, env)} :
         run' = [run EXCEPT ![r] = next]
  /\ UNCHANGED <<variant, search, request, env, jar, lastWriter, probe>>

\* response.json() rejects: malformed JSON, or the body stream breaks.
BodyFails(r) ==
  /\ run[r].pc \in {"body", "dBody"}
  /\ \E next \in {Resume(run[r], "parse", EmptyRecord, env)} :
       run' = [run EXCEPT ![r] = next]
  /\ UNCHANGED <<variant, search, request, env, jar, lastWriter, probe>>

\* timeoutMs passes since the pending fetchIPData call was made.  An armed timer
\* fires and aborts the controller; a fetch() still pending then rejects with
\* AbortError.  (A timer left armed by a call that already settled fires into a
\* finished request and changes nothing: no action.)
TimeoutElapses(r) ==
  /\ ~run[r].elapsed
  /\ Pending(run[r])
  /\ \E t \in {[run[r] EXCEPT !.elapsed = TRUE,
                                !.timer = IF @ = "armed" THEN "fired" ELSE @]} :
       \E next \in {IF run[r].timer = "armed" /\ run[r].pc = "fetch"
                    THEN Resume(t, "abort", EmptyRecord, env)
                    ELSE t} :
         run' = [run EXCEPT ![r] = next]
  /\ UNCHANGED <<variant, search, request, env, jar, lastWriter, probe>>

\* The 1500 ms timer fires: window.location.href = redirectUrl.  The page is
\* unloaded: its timers and the state of its enrichment call are gone.
Navigate(r) ==
  /\ run[r].pc = "navWait"
  /\ run' = [run EXCEPT ![r] = [@ EXCEPT !.pc = "redirected", !.href = run[r].redirectUrl,
                                         !.timer = "none", !.outcome = "none",
                                         !.ipData = None]]
  /\ UNCHANGED <<variant, search, request, env, jar, lastWriter, probe>>

\* The 4200 ms timer fires: the disclosure callback draws the canvas fingerprint
\* (TypeError on a null context) and starts typing.
DisclosureStarts(r) ==
  /\ run[r].pc = "dWait"
  /\ run' = [run EXCEPT ![r] =
               IF env.canvas THEN [@ EXCEPT !.pc = "dTyping"] ELSE Fail(@, "canvas")]
  /\ UNCHANGED <<variant, search, request, env, jar, lastWriter, probe>>

\* The last typing timer fires: the callback calls its fetchIPData, which has no
\* abort timer.
TypingCompletes(r) ==
  /\ run[r].pc = "dTyping"
  /\ run' = [run EXCEPT ![r] = [@ EXCEPT !.pc = "dFetch", !.elapsed = FALSE]]
  /\ UNCHANGED <<variant, search, request, env, jar, lastWriter, probe>>

Next ==
  \E r \in Runs :
    \/ Initialize(r)
    \/ DigestResolves(r)
    \/ DigestRejects(r)
    \/ FetchFails(r)
    \/ FetchResponds(r)
    \/ BodyArrives(r)
    \/ BodyFails(r)
    \/ TimeoutElapses(r)
    \/ Navigate(r)
    \/ DisclosureStarts(r)
    \/ TypingCompletes(r)

Spec == Init /\ [][Next]_vars

\* Timers fire, the digest settles and the page's script runs; the remote
\* endpoint owes nothing: no fairness on FetchFails, FetchResponds, BodyArrives,
\* BodyFails.  For Initialize, the digest and TimeoutElapses weak fairness is
\* written out, []<>(not enabled) \/ []<>(step taken), with the action's guard as
\* its enabling condition (each of them changes run[r] whenever its guard holds).
Fairness ==
  \A r \in Runs :
    /\ []<>(run[r].pc # "load") \/ []<><<Initialize(r)>>_vars
    /\ []<>(run[r].pc # "digest") \/ []<><<DigestResolves(r) \/ DigestRejects(r)>>_vars
    /\ []<>(run[r].elapsed \/ ~Pending(run[r])) \/ []<><<TimeoutElapses(r)>>_vars
    /\ WF_vars(Navigate(r))
    /\ WF_vars(DisclosureStarts(r))
    /\ WF_vars(TypingCompletes(r))

FairSpec == Spec /\ Fairness

(***************************************************************************)
(* constructRedirectURL called directly on drawn arguments                 *)
(***************************************************************************)
ProbeBases == {<<"h", "t", "t", "p", "s", ":", "/", "/", "x", ".", "t", "e", "s", "t", "/", "a">>, <<"h", "t", "t", "p", "s", ":", "/", "/", "x", ".", "t", "e", "s", "t", "/", "a", "?", "p", "=", "1">>}
ProbePassthrough == {<<>>, <<"r", "e", "f", "=", "1">>, <<"a", "=", "b", "+", "c", "&", "d", "=", "%", "2", "F">>}
ProbeIDs == {<<"i", "d", "1">>, <<"0", "a", "f", "3">>}
ProbeTimezones == {TZ_UTC, TZ_Rome}

ComposeInit ==
  /\ variant = "script"
  /\ search = Q_None
  /\ request = RequestParams(variant, search)
  /\ env = BaseEnv
  /\ jar = <<>>
  /\ lastWriter = 0
  /\ run = [r \in Runs |-> NewRun]
  /\ probe \in [baseUrl : ProbeBases, extraParams : ProbePassthrough, uniqueID : ProbeIDs,
                 timezone : ProbeTimezones, ipData : GeoRecords, result : {None}]

Compose ==
  /\ probe.result = None
  /\ probe' = [probe EXCEPT !.result =
                  Some(constructRedirectURL(probe.uniqueID, probe.ipData, probe.baseUrl,
                                            probe.extraParams, probe.timezone).url)]
  /\ UNCHANGED <<variant, search, request, env, jar, lastWriter, run>>

ComposeNext == Compose

ComposeSpec == ComposeInit /\ [][ComposeNext]_vars

(***************************************************************************)
(* The page's query read and a redirect URL composed from it, on drawn     *)
(* queries                                                                 *)
(***************************************************************************)
PQ_Canonical == <<"?", "U", "R", "L", "=", "h", "t", "t", "p", "s", "%", "3", "A", "%", "2", "F", "%", "2", "F", "x", ".", "t", "e", "s", "t", "%", "2", "F", "a">>
PQ_Recoded == <<"?", "a", "=", "b", "%", "2", "0", "c", "&", "U", "R", "L", "=", "h", "t", "t", "p", "s", ":", "/", "/", "x", ".", "t", "e", "s", "t", "/", "a">>
PQ_Bare == <<"?", "f", "l", "a", "g", "&", "U", "R", "L", "=", "h", "t", "t", "p", "s", ":", "/", "/", "x", ".", "t", "e", "s", "t", "/", "a", "&", "k", "=", "v">>
PQ_Shadow == <<"?", "u", "n", "i", "q", "u", "e", "I", "D", "=", "e", "v", "i", "l", "&", "U", "R", "L", "=", "h", "t", "t", "p", "s", ":", "/", "/", "x", ".", "t", "e", "s", "t", "/", "a">>
PQ_ShadowInTarget == <<"?", "U", "R", "L", "=", "h", "t", "t", "p", "s", "%", "3", "A", "%", "2", "F", "%", "2", "F", "x", ".", "t", "e", "s", "t", "%", "2", "F", "a", "%", "3", "F", "u", "n", "i", "q", "u", "e", "I", "D", "%", "3", "D", "x">>
PQ_Empty == <<"?", "U", "R", "L", "=">>
PQ_Percent == <<"?", "U", "R", "L", "=", "h", "t", "t", "p", "s", "%", "3", "A", "%", "2", "F", "%", "2", "F", "x", ".", "t", "e", "s", "t", "%", "2", "F", "a", "%", "3", "F", "q", "%", "3", "D", "%", "2", "5">>
PQ_Escaped == <<"?", "U", "R", "L", "=", "h", "t", "t", "p", "s", "%", "3", "A", "%", "2", "F", "%", "2", "F", "x", ".", "t", "e", "s", "t", "%", "2", "F", "a", "%", "3", "F", "q", "%", "3", "D", "%", "2", "5", "4", "1">>
PQ_NoTarget == <<"?", "k", "=", "v">>

ProbeQueries ==
  {Q_None, Q_Plain, Q_Extra, PQ_Canonical, PQ_Recoded, PQ_Bare, PQ_Shadow, PQ_ShadowInTarget,
   PQ_Empty,
   PQ_Percent, PQ_Escaped, PQ_NoTarget}

RequestInit ==
  /\ variant = "script"
  /\ search = Q_None
  /\ request = RequestParams(variant, search)
  /\ env = BaseEnv
  /\ jar = <<>>
  /\ lastWriter = 0
  /\ run = [r \in Runs |-> NewRun]
  /\ probe \in [variant : Variants, search : ProbeQueries, request : {None},
                route : {"none"}, result : {None}]

\* initialize reads the query and starts the route it decides on.
ReadRequest ==
  /\ probe.request = None
  /\ \E req \in {RequestParams(probe.variant, probe.search)}, now \in Timestamps :
       \E started \in {initialize(NewRun, probe.variant, req, <<>>, BaseEnv, now, Random(1))} :
         probe' = [probe EXCEPT !.request = Some(req), !.route = started.route]
  /\ UNCHANGED <<variant, search, request, env, jar, lastWriter, run>>

\* init composes the redirect URL from what initialize read.
ComposeRequest ==
  /\ probe.request # None
  /\ probe.result = None
  /\ ~probe.request[1].threw
  /\ Truthy(probe.request[1].baseUrl)
  /\ \E id \in ProbeIDs, g \in GeoRecords :
       \E built \in {constructRedirectURL(id, g, probe.request[1].baseUrl[1],
                                          probe.request[1].extraParams, TZ_UTC)} :
         probe' = [probe EXCEPT !.result = Some(built.url)]
  /\ UNCHANGED <<variant, search, request, env, jar, lastWriter, run>>

RequestNext == ReadRequest \/ ComposeRequest

RequestSpec == RequestInit /\ [][RequestNext]_vars

(***************************************************************************)
(* setCookie then getCookie, on drawn values and jars                      *)
(***************************************************************************)
ProbeValues == {<<"0", "a", "f", "3">>, <<"a", " ", "b">>, <<"a", "=", "b", "/", "c">>, <<>>}
ProbeDays == {0, 1, DefaultDays}

\* A cookie of another script whose name ends like the identifier's.
SuffixCookie ==
  [name |-> <<"m", "y", "u", "n", "i", "q", "u", "e", "I", "D">>, value |-> <<"9">>, expiresInDays |-> 1,
   path |-> "/", sameSite |-> "Strict", secure |-> TRUE]

ProbeJars(v) ==
  {<<>>,
   <<SuffixCookie, OtherCookie>>,
   <<OtherCookie, CookieOf(v, K_uniqueID, <<"o", "l", "d">>, DefaultDays), SuffixCookie>>}

CookieInit ==
  /\ variant = "script"
  /\ search = Q_None
  /\ request = RequestParams(variant, search)
  /\ env = BaseEnv
  /\ jar = <<>>
  /\ lastWriter = 0
  /\ run = [r \in Runs |-> NewRun]
  /\ \E v \in Variants :
       probe \in [variant : {v}, jar : ProbeJars(v), value : ProbeValues, days : ProbeDays,
                  assigned : {None}, written : {FALSE}, read : {None}]

\* setCookie('uniqueID', value, days) in a store that accepts the write.
WriteCookie ==
  /\ ~probe.written
  /\ \E stored \in {setCookie(probe.jar, "accept", probe.variant, K_uniqueID,
                              probe.value, probe.days)} :
       probe' = [probe EXCEPT !.jar = stored, !.written = TRUE,
                              !.assigned = Some(CookieOf(probe.variant, K_uniqueID,
                                                         probe.value, probe.days))]
  /\ UNCHANGED <<variant, search, request, env, jar, lastWriter, run>>

\* getCookie('uniqueID') after the write.
ReadCookie ==
  /\ probe.written
  /\ probe.read = None
  /\ \E got \in {getCookie(probe.jar, K_uniqueID)} :
       probe' = [probe EXCEPT !.read = Some(got)]
  /\ UNCHANGED <<variant, search, request, env, jar, lastWriter, run>>

CookieNext == WriteCookie \/ ReadCookie

CookieSpec == CookieInit /\ [][CookieNext]_vars

(***************************************************************************)
(* Reading a redirect URL back, as its receiver does                       *)
(***************************************************************************)
\* The name=value pieces of everything after the first "?" of a URL.
QueryPieces(url) == Split(SubSeq(url, IndexOf(url, <<"?">>) + 1, Len(url)), <<"&">>)

PieceName(piece) ==
  LET i == IndexOf(piece, <<"=">>) IN IF i = 0 THEN piece ELSE SubSeq(piece, 1, i - 1)

\* The text of the value as written in the URL, and what the receiver decodes it to.
PieceRaw(piece) ==
  LET i == IndexOf(piece, <<"=">>) IN IF i = 0 THEN <<>> ELSE SubSeq(piece, i + 1, Len(piece))
PieceValue(piece) == FormDecode(PieceRaw(piece))

\* The k-th of the three pieces the composer appends last (k = 1, 2, 3).
DerivedPiece(url, k) ==
  LET ps == QueryPieces(url) IN IF Len(ps) < 3 THEN <<>> ELSE ps[Len(ps) - 3 + k]

CarriedID(url) == PieceValue(DerivedPiece(url, 1))
CarriedLocation(url) == PieceValue(DerivedPiece(url, 3))

RedirectRuns == {r \in Runs : run[r].route = "redirect"}

(***************************************************************************)
(* Identity                                                                *)
(***************************************************************************)
\* C1: a redirect-route run that finds a uniqueID cookie stored carries exactly
\* the stored value as uniqueID in its redirect URL, and never calls
\* generateUniqueID nor setCookie.
C1_StoredIdentifierReused ==
  \A r \in RedirectRuns :
    Truthy(run[r].stored0) =>
      /\ run[r].genCalls = 0
      /\ run[r].setCalls = 0
      /\ run[r].uniqueID = run[r].stored0
      /\ run[r].redirectUrl # None => CarriedID(run[r].redirectUrl[1]) = run[r].stored0[1]
      /\ run[r].href # None => CarriedID(run[r].href[1]) = run[r].stored0[1]

C1_Witness ==
  \E r \in RedirectRuns :
    Truthy(run[r].stored0) /\ run[r].pc = "redirected" /\ run[r].href # None

\* C2 as stated: whenever a redirect-route run that found no uniqueID cookie
\* navigates, getCookie('uniqueID') right after that step returns the uniqueID of
\* the URL it navigates to, in every environment.
C2_CookieEqualsUrlInEveryEnvironment ==
  [][\A r \in Runs :
       (Navigate(r) /\ ~Truthy(run[r].stored0)) =>
         getCookie(jar', K_uniqueID) = Some(CarriedID(run'[r].href[1]))]_vars

\* C2 amended: after a redirect-route run that found no uniqueID cookie has
\* navigated, a store that drops the write still holds no uniqueID cookie; a store
\* that accepts writes holds the identifier of the run whose write it accepted
\* last, which is the uniqueID of this run's URL when that run is this one.
C2_CookieEqualsUrlOfLastAcceptedWrite ==
  \A r \in RedirectRuns :
    (run[r].pc = "redirected" /\ ~Truthy(run[r].stored0)) =>
      /\ env.cookies # "accept" => getCookie(jar, K_uniqueID) = None
      /\ env.cookies = "accept" =>
           /\ lastWriter \in Runs
           /\ getCookie(jar, K_uniqueID) = run[lastWriter].uniqueID
           /\ lastWriter = r => getCookie(jar, K_uniqueID) = Some(CarriedID(run[r].href[1]))

C2_Witness ==
  \E r \in RedirectRuns :
    /\ run[r].pc = "redirected" /\ ~Truthy(run[r].stored0)
    /\ env.cookies = "accept" /\ lastWriter = r
    /\ getCookie(jar, K_uniqueID) = Some(CarriedID(run[r].href[1]))

\* C3: no read-modify-write race on the stored identifier: in a store that
\* accepts writes at most one run ever mints and writes an identifier, and no
\* other run's setCookie happens between a run's getCookie returning absent and
\* that run's own setCookie.
C3_NoReadModifyWriteRace ==
  env.cookies = "accept" =>
    /\ Cardinality({r \in RedirectRuns : run[r].setCalls > 0}) <= 1
    /\ \A r \in RedirectRuns :
         (run[r].pc = "digest" /\ ~Truthy(run[r].stored0)) =>
           getCookie(jar, K_uniqueID) = None

(***************************************************************************)
(* Ordering                                                                *)
(***************************************************************************)
IdentityInProgress(rec) == rec.stableData # None
IdentityResolved(rec) ==
  /\ rec.uniqueID # None
  /\ ~IdentityInProgress(rec)
  /\ ~Truthy(rec.stored0) => rec.genCalls = 1 /\ rec.setCalls = 1
EnrichmentStarted(rec) ==
  rec.pc \in {"fetch", "body"} \/ rec.timer # "none" \/ rec.outcome # "none"
EnrichmentResolved(rec) == rec.outcome # "none" /\ rec.ipData # None /\ ~Pending(rec)
Unloaded(rec) == rec.pc = "redirected"

\* C4: in a redirect-route run the identifier is resolved (cookie read, and when
\* absent generated and written) before the enrichment request is sent, the
\* enrichment call has resolved before the URL is composed, navigation is
\* scheduled only with a composed URL, and no two of the steps are in progress
\* together.
C4_SequentialChain ==
  \A r \in RedirectRuns :
    LET rec == run[r] IN
    /\ IdentityInProgress(rec) =>
         rec.pc = "digest" /\ ~EnrichmentStarted(rec) /\ rec.redirectUrl = None
    /\ EnrichmentStarted(rec) => IdentityResolved(rec)
    /\ Pending(rec) => rec.redirectUrl = None /\ rec.ipData = None
    /\ (rec.redirectUrl # None /\ ~Unloaded(rec)) =>
         EnrichmentResolved(rec) /\ IdentityResolved(rec)
    /\ rec.pc \in {"navWait", "redirected"} => rec.redirectUrl # None
    /\ rec.href # None => rec.pc = "redirected" /\ rec.href = rec.redirectUrl

C4_Witness ==
  \E r \in RedirectRuns :
    /\ run[r].pc = "navWait" /\ run[r].setCalls = 1 /\ run[r].outcome = "value"
    /\ run[r].redirectUrl # None

(***************************************************************************)
(* Enrichment                                                              *)
(***************************************************************************)
\* C5: fetchIPData enforces a hard timeout for every caller: once timeoutMs has
\* elapsed since the call was made, the call is no longer pending.
C5_HardTimeout == \A r \in Runs : run[r].elapsed => ~Pending(run[r])

Failures == {"transport", "abort", "status", "parse"}
T_Placeholders == <<"N", "/", "A", ",", "N", "/", "A", ",", "N", "/", "A">>

\* C6: a transport error, an abort, a non-success status and an unparsable body
\* all make fetchIPData resolve to the same empty record; nothing is thrown to
\* init, and the run goes on to a redirect URL whose location is N/A,N/A,N/A.
C6_FailuresAbsorbed ==
  \A r \in Runs :
    LET rec == run[r] IN
    /\ rec.cause # "fetch"
    /\ rec.outcome \in Failures =>
         /\ rec.ipData = Some(EmptyRecord)
         /\ rec.route = "redirect" =>
              /\ rec.pc = "navWait"
              /\ rec.redirectUrl # None
              /\ CarriedLocation(rec.redirectUrl[1]) = T_Placeholders

C6_Witness ==
  \E r \in RedirectRuns :
    run[r].outcome = "parse" /\ run[r].pc = "navWait" /\ run[r].ipData = Some(EmptyRecord)

\* C7: under fair scheduling of timers and callbacks, a redirect-route run whose
\* identifier is resolved eventually assigns window.location.href, whatever the
\* remote endpoint does.
C7_RedirectNeverBlocks ==
  \A r \in Runs :
    (run[r].route = "redirect" /\ run[r].uniqueID # None) ~> (run[r].pc = "redirected")

\* C8: a storage failure (disabled, rejecting or throwing) does not block the
\* redirect: no redirect-route run ends on an exception raised by the cookie store.
C8_StorageFailureDoesNotBlock ==
  \A r \in RedirectRuns : ~(run[r].pc = "failed" /\ run[r].cause = "storage")

(***************************************************************************)
(* Composition                                                             *)
(***************************************************************************)
Composed == probe.result # None /\ probe.ipData.kind # "null"
Separator(base) == IF \E i \in 1..Len(base) : base[i] = "?" THEN "&" ELSE "?"

\* The text after base and separator.
Appended(url, base) == SubSeq(url, Len(base) + 2, Len(url))

\* The text after the passthrough block and its "&", if there is a passthrough.
DerivedBlock(url, base, passthrough) ==
  IF passthrough = <<>> THEN Appended(url, base)
  ELSE SubSeq(Appended(url, base), Len(passthrough) + 2, Len(Appended(url, base)))

\* C9: the composed URL is the base, one separator ("&" if the base contains "?",
\* "?" otherwise), the passthrough block and one "&" if the passthrough is not
\* empty, then the derived block of exactly uniqueID, timezone, location in
\* that order.
C9_ConcatenationRule ==
  Composed =>
    LET url == probe.result[1]
        base == probe.baseUrl
        pass == probe.extraParams
        block == Split(DerivedBlock(url, base, pass), <<"&">>)
    IN /\ startsWith(url, base)
       /\ Len(url) > Len(base) /\ url[Len(base) + 1] = Separator(base)
       /\ pass # <<>> => startsWith(Appended(url, base), pass \o <<"&">>)
       /\ Len(block) = 3
       /\ <<PieceName(block[1]), PieceName(block[2]), PieceName(block[3])>>
            = <<K_uniqueID, K_timezone, K_location>>
       /\ PieceValue(block[1]) = probe.uniqueID
       /\ PieceValue(block[2]) = probe.timezone

C9_Witness ==
  /\ Composed /\ probe.extraParams # <<>> /\ Separator(probe.baseUrl) = "&"
  /\ startsWith(probe.result[1], probe.baseUrl \o <<"&">> \o probe.extraParams \o <<"&">>)

IsExample ==
  /\ Str(probe.baseUrl) = "https://x.test/a" /\ probe.extraParams = <<>>
  /\ Str(probe.uniqueID) = "id1" /\ Str(probe.timezone) = "UTC" /\ probe.ipData = EmptyRecord

\* C10 as stated: the example composes to a URL whose location value shows its
\* commas and slashes literally.
C10_ExampleLiteral ==
  (Composed /\ IsExample) =>
    Str(probe.result[1]) = "https://x.test/a?uniqueID=id1&timezone=UTC&location=N/A,N/A,N/A"

\* The city, region and country of a record with N/A for each absent one.
ExpectedLocation(g) ==
  (IF Truthy(g.city) THEN g.city[1] ELSE T_NA) \o <<",">>
  \o (IF Truthy(g.region) THEN g.region[1] ELSE T_NA) \o <<",">>
  \o (IF Truthy(g.country) THEN g.country[1] ELSE T_NA)

\* C10 amended: the derived block is uniqueID=<id>&timezone=<tz>&location=<loc>
\* with every value form-urlencoded: the location decodes to
\* <city>,<region>,<country> with N/A for absent fields, its commas and slashes
\* are written %2C and %2F, and the example composes to
\* https://x.test/a?uniqueID=id1&timezone=UTC&location=N%2FA%2CN%2FA%2CN%2FA.
C10_ExampleEncoded ==
  Composed =>
    LET url == probe.result[1]
        loc == DerivedPiece(url, 3)
    IN /\ PieceName(loc) = K_location
       /\ PieceValue(loc) = ExpectedLocation(probe.ipData)
       /\ ~includes(PieceRaw(loc), <<",">>) /\ ~includes(PieceRaw(loc), <<"/">>)
       /\ includes(PieceRaw(loc), <<"%", "2", "C">>)
       /\ IsExample =>
            Str(url) = "https://x.test/a?uniqueID=id1&timezone=UTC&location=N%2FA%2CN%2FA%2CN%2FA"

C10_Witness ==
  /\ Composed /\ IsExample
  /\ Str(probe.result[1]) = "https://x.test/a?uniqueID=id1&timezone=UTC&location=N%2FA%2CN%2FA%2CN%2FA"

(***************************************************************************)
(* Passthrough                                                             *)
(***************************************************************************)
\* The pieces of the incoming query as they were written, empty ones skipped.
RECURSIVE NonEmpty(_)
NonEmpty(pieces) ==
  IF pieces = <<>> THEN <<>>
  ELSE (IF Head(pieces) = <<>> THEN <<>> ELSE <<Head(pieces)>>) \o NonEmpty(Tail(pieces))

RawPieces(query) ==
  NonEmpty(Split(IF startsWith(query, <<"?">>) THEN Tail(query) ELSE query, <<"&">>))

RECURSIVE Except(_, _)
\* The pieces whose name is not `name`, in order.
Except(pieces, name) ==
  IF pieces = <<>> THEN <<>>
  ELSE (IF FormDecode(PieceName(Head(pieces))) = name THEN <<>> ELSE <<Head(pieces)>>)
       \o Except(Tail(pieces), name)

\* The incoming query minus the routing key, byte for byte.
RawPassthrough(query) == Join(Except(RawPieces(query), K_URL), <<"&">>)

RequestComposed == probe.request # None /\ probe.result # None

\* C11: every parameter of the incoming query other than URL appears in the
\* redirect URL once, in order and byte for byte: after the base and its
\* separator comes the incoming query minus the routing key, then "&", then
\* exactly the three derived pairs.
C11_PassthroughVerbatim ==
  RequestComposed =>
    LET url == probe.result[1]
        base == probe.request[1].baseUrl[1]
        raw == RawPassthrough(probe.search)
    IN /\ startsWith(url, base)
       /\ Len(Split(DerivedBlock(url, base, raw), <<"&">>)) = 3
       /\ raw # <<>> => startsWith(Appended(url, base), raw \o <<"&">>)

\* How many pairs of the URL's query carry that key.
Occurrences(url, key) ==
  Cardinality({i \in 1..Len(QueryPieces(url)) :
                 FormDecode(PieceName(QueryPieces(url)[i])) = key})

\* C12: passthrough and derived parameters never collide: each of uniqueID,
\* timezone and location occurs exactly once in the query of the redirect URL.
C12_DerivedKeysOccurOnce ==
  RequestComposed =>
    \A key \in {K_uniqueID, K_timezone, K_location} :
      Occurrences(probe.result[1], key) = 1

(***************************************************************************)
(* Cookie store                                                            *)
(***************************************************************************)
CookieRead == probe.written /\ probe.read # None
Unreserved(v) == \A i \in 1..Len(v) : v[i] \notin DOMAIN CharCode

\* C13 as stated: for every value v and every jar, setCookie('uniqueID', v)
\* followed by getCookie('uniqueID') returns v itself.
C13_RoundTripEveryValue == CookieRead => probe.read[1] = Some(probe.value)

\* C13 amended: getCookie returns the stored text as it is, without decoding:
\* after setCookie('uniqueID', v) in a store that accepts the write it returns
\* v when v has only unreserved characters (every hex digest), and the
\* percent-encoded form of v, different from v, otherwise; cookies of other
\* names do not affect the result.  (With a TTL of 0 days the cookie is expired
\* as written and the read finds none.)
C13_RoundTripRaw ==
  CookieRead =>
    IF probe.days > 0
    THEN /\ probe.read[1] # None
         /\ FormDecode(probe.read[1][1]) = probe.value
         /\ \A i \in 1..Len(probe.read[1][1]) :
              probe.read[1][1][i] \in DOMAIN CharCode => probe.read[1][1][i] = "%"
         /\ Unreserved(probe.value) <=> probe.read[1] = Some(probe.value)
    ELSE probe.read[1] = None

C13_Witness ==
  /\ CookieRead /\ Len(probe.jar) = 3
  /\ probe.read[1] = Some(probe.value) /\ probe.value = <<"0", "a", "f", "3">>

(***************************************************************************)
(* Routing                                                                 *)
(***************************************************************************)
RequestRead == probe.request # None

\* The routing key is present in the query, whatever its value.
KeyPresent(query) ==
  \E i \in 1..Len(RawPieces(query)) : FormDecode(PieceName(RawPieces(query)[i])) = K_URL

\* C14: initialize takes the redirect route if and only if the routing key URL
\* is present in the query and the disclosure route if and only if it is
\* absent; exactly one of the two routes is started per page load.
C14_RouteIffKeyPresent ==
  RequestRead =>
    /\ probe.route \in {"redirect", "disclosure"}
    /\ probe.route = "redirect" <=> KeyPresent(probe.search)
    /\ probe.route = "disclosure" <=> ~KeyPresent(probe.search)

(***************************************************************************)
(* Enrichment record                                                       *)
(***************************************************************************)
K_undefined == <<"u", "n", "d", "e", "f", "i", "n", "e", "d">>

\* C15: for every body the enrichment lookup resolves to after a successful
\* response, a non-object such as null included, URL composition completes
\* without error and the location has exactly three comma-separated components,
\* none of them empty or "undefined".
C15_GeoRecordTotal ==
  \A r \in RedirectRuns :
    run[r].outcome = "value" =>
      /\ run[r].pc # "failed"
      /\ run[r].redirectUrl # None
      /\ LET parts == Split(CarriedLocation(run[r].redirectUrl[1]), <<",">>)
         IN /\ Len(parts) = 3
            /\ \A i \in 1..Len(parts) : parts[i] \notin {<<>>, K_undefined}

(***************************************************************************)
(* Rendering surface                                                       *)
(***************************************************************************)
\* C16: when the canvas 2D context is unavailable, collectStableData still
\* returns a complete sample with a fallback fingerprint, so a run that has to
\* generate an identifier does not end there: it goes on to the digest and the
\* redirect.
C16_RenderingFailureRecovered ==
  \A r \in RedirectRuns :
    (~env.canvas /\ run[r].genCalls > 0) =>
      /\ run[r].cause # "canvas"
      /\ run[r].pc # "failed" \/ run[r].cause \in {"digest", "compose", "fetch"}

(***************************************************************************)
(* Identifier of the redirect                                              *)
(***************************************************************************)
\* The lowercase hex text of a digest.
IsDigest(id) ==
  /\ Len(id) = 2 * DigestLen
  /\ \A i \in 1..Len(id) : \E k \in 1..Len(LowerHex) : LowerHex[k] = id[i]

\* The URL the run is about to navigate to, or has navigated to.
TargetOf(rec) == IF rec.pc = "navWait" THEN rec.redirectUrl[1] ELSE rec.href[1]

\* C17: whenever navigation has been scheduled or issued, the uniqueID of the
\* target URL is a non-empty string: the value read from the store at the start
\* of the run, or the hex digest generated in this run.  A run whose digest
\* computation fails never schedules navigation and never writes the cookie.
C17_NoRedirectWithoutIdentifier ==
  \A r \in Runs :
    /\ run[r].pc \in {"navWait", "redirected"} =>
         \E id \in {CarriedID(TargetOf(run[r]))} :
           /\ id \notin {<<>>, K_undefined}
           /\ run[r].uniqueID = Some(id)
           /\ IF Truthy(run[r].stored0) THEN id = run[r].stored0[1]
              ELSE IsDigest(id) /\ run[r].genCalls = 1 /\ run[r].setCalls = 1
    /\ run[r].cause = "digest" =>
         /\ run[r].pc = "failed"
         /\ run[r].redirectUrl = None /\ run[r].href = None
         /\ run[r].setCalls = 0

C17_Witness ==
  \E r \in Runs :
    /\ run[r].pc = "redirected" /\ ~Truthy(run[r].stored0)
    /\ IsDigest(CarriedID(run[r].href[1]))
    /\ \E q \in Runs : run[q].cause = "digest"

(***************************************************************************)
(* Decoding of the routing target                                          *)
(***************************************************************************)
\* The text of the first URL parameter's value as it stands in the query.
RawTarget(query) ==
  LET pieces == RawPieces(query)
      first == CHOOSE i \in 1..Len(pieces) :
                 /\ FormDecode(PieceName(pieces[i])) = K_URL
                 /\ \A j \in 1..(i - 1) : FormDecode(PieceName(pieces[j])) # K_URL
  IN PieceRaw(pieces[first])

\* C18: the routing target is decoded exactly once: for every destination
\* supplied as the value of URL, the base URL used for the redirect is the single
\* percent-decoding of the parameter's raw text, and decoding never raises an
\* error.
C18_TargetDecodedOnce ==
  (RequestRead /\ KeyPresent(probe.search) /\ RawTarget(probe.search) # <<>>) =>
    /\ ~probe.request[1].threw
    /\ probe.request[1].baseUrl = Some(FormDecode(RawTarget(probe.search)))

(***************************************************************************)
(* Expiry of the cookie                                                    *)
(***************************************************************************)
\* C19: setCookie(name, value, days) writes an expiry of the write time plus
\* exactly `days` days, with path=/, SameSite=Strict, Secure and the value
\* percent-encoded, for every non-negative `days`.
C19_ExpiryIsDaysTimesOneDay ==
  probe.written =>
    /\ probe.assigned[1].name = K_uniqueID
    /\ probe.assigned[1].value = encodeURIComponent(probe.value)
    /\ probe.assigned[1].expiresInDays = probe.days
    /\ probe.assigned[1].path = "/"
    /\ probe.assigned[1].sameSite = "Strict"
    /\ probe.assigned[1].secure

(***************************************************************************)
(* Disclosure route                                                        *)
(***************************************************************************)
DisclosureRuns == {r \in Runs : run[r].route = "disclosure"}

\* No navigation and no use of the identifier by that run so far.
NoRedirectEffect(rec) ==
  /\ rec.href = None /\ rec.redirectUrl = None
  /\ rec.genCalls = 0 /\ rec.setCalls = 0
  /\ rec.uniqueID = None /\ rec.stableData = None
  /\ rec.pc \notin {"digest", "fetch", "body", "navWait", "redirected"}

\* C20: a run on the disclosure route never assigns window.location and leaves
\* the cookie store unchanged, the uniqueID cookie neither read for minting nor
\* written, in every state up to and including the end of rendering.
C20_DisclosureHasNoEffect ==
  /\ [](\A r \in DisclosureRuns : NoRedirectEffect(run[r]) /\ lastWriter # r)
  /\ [][\A r \in Runs :
          (run'[r].route = "disclosure" /\ run'[r] # run[r]) =>
            jar' = jar /\ lastWriter' = lastWriter]_vars

C20_Witness ==
  \E r \in DisclosureRuns :
    /\ run[r].pc = "disclosed" /\ run[r].ipData # None
    /\ NoRedirectEffect(run[r]) /\ jar # <<>>

====
